---- MODULE Spec2Model ----
(***************************************************************************)
(* Cluster-restricted vector-space search of SphericalKMeans.ipynb:        *)
(* the fitted state (normalized_vectors, kmeans.labels_,                   *)
(* kmeans.cluster_centers_, articles_titles), create_cluster_index and     *)
(* search.                                                                 *)
(*                                                                         *)
(* Python lists are sequences (Python position p is position p+1 here),    *)
(* document indices and cluster ids are the Python integers 0..N-1 and     *)
(* 0..K-1, a dict is a function whose DOMAIN is its key set.               *)
(* Term weights are non-negative integers; a cosine similarity is kept as  *)
(* the exact fraction <<num, den>> of its square, which orders exactly as  *)
(* the cosine does because no weight is negative.                          *)
(***************************************************************************)
EXTENDS Integers, Sequences, FiniteSets, TLC

VARIABLES
    pc,                        \* notebook position: "normalized", "fitted", "indexed", "searched"
    articles_titles,           \* list of titles, by document index
    normalized_vectors,        \* matrix rows, by document index
    clusters,                  \* kmeans.labels_, by document index
    cluster_centers,           \* kmeans.cluster_centers_, by cluster id
    cluster_index,             \* dict cluster id -> list of document indices
    normalized_query_vector,   \* search: the query row
    top_n,                     \* search: the argument top_n
    most_relevant_cluster,     \* search: argmax of the centroid similarities
    docs_in_relevant_cluster,  \* search: cluster_index[most_relevant_cluster]
    most_similar_docs,         \* search: docs_in_relevant_cluster[idx] of the returned titles
    most_similar_titles,       \* search: the returned list
    error                      \* search: "none" or the exception raised

vars == <<pc, articles_titles, normalized_vectors, clusters, cluster_centers,
          cluster_index, normalized_query_vector, top_n, most_relevant_cluster,
          docs_in_relevant_cluster, most_similar_docs, most_similar_titles, error>>

fitted == <<articles_titles, normalized_vectors, clusters, cluster_centers>>

call == <<normalized_query_vector, top_n, most_relevant_cluster,
          docs_in_relevant_cluster, most_similar_docs, most_similar_titles, error>>

-----------------------------------------------------------------------------
(* Bounds of the model *)

NumDocs == 2

NumClusters == 2

MaxTopN == 2

Docs == 0 .. (NumDocs - 1)

ClusterIds == 0 .. (NumClusters - 1)

-----------------------------------------------------------------------------
(* The fitted vectorizer: vocabulary, idf weights, lowercasing *)

Vocabulary == <<"cat", "bank">>

Idf == <<1, 2>>

Dim == Len(Vocabulary)

Weights == {0, 1}

Queries == { <<"zzz">>, <<"Cat">>, <<"bank", "zzz">>, <<"cat", "Bank">> }

Lower(token) ==
    CASE token = "Cat" -> "cat"
      [] token = "Bank" -> "bank"
      [] OTHER -> token

RECURSIVE LowerUpTo(_, _)
LowerUpTo(query, n) ==
    IF n = 0 THEN <<>> ELSE Append(LowerUpTo(query, n - 1), Lower(query[n]))

\* query.lower()
LowerQuery(query) == LowerUpTo(query, Len(query))

RECURSIVE Count(_, _, _)
Count(query, term, n) ==
    IF n = 0 THEN 0
    ELSE Count(query, term, n - 1) + (IF query[n] = term THEN 1 ELSE 0)

RECURSIVE TransformUpTo(_, _)
TransformUpTo(query, t) ==
    IF t = 0 THEN <<>>
    ELSE Append(TransformUpTo(query, t - 1),
                Count(query, Vocabulary[t], Len(query)) * Idf[t])

\* tfidf_vectorizer.transform: a token outside the vocabulary has no column
Transform(query) == TransformUpTo(query, Dim)

-----------------------------------------------------------------------------
(* Vectors *)

RECURSIVE Gcd(_, _)
Gcd(a, b) == IF b = 0 THEN a ELSE Gcd(b, a % b)

RECURSIVE GcdOf(_, _)
GcdOf(v, n) == IF n = 0 THEN 0 ELSE Gcd(GcdOf(v, n - 1), v[n])

\* sklearn.preprocessing.normalize: the row scaled to the unit sphere, an
\* all-zero row left as it is.  The unit vector of a direction is written by
\* the direction's least integer representative.
RECURSIVE DivideUpTo(_, _, _)
DivideUpTo(v, g, n) ==
    IF n = 0 THEN <<>> ELSE Append(DivideUpTo(v, g, n - 1), v[n] \div g)

Normalize(v) ==
    LET g == GcdOf(v, Len(v)) IN
    IF g = 0 THEN v ELSE DivideUpTo(v, g, Len(v))

RECURSIVE DotUpTo(_, _, _)
DotUpTo(x, y, n) == IF n = 0 THEN 0 ELSE DotUpTo(x, y, n - 1) + x[n] * y[n]

Dot(x, y) == DotUpTo(x, y, Len(x))

\* sklearn cosine_similarity of two rows, squared: both rows are normalized
\* first and a zero row stays zero, so its similarity to anything is 0.
CosineSimilarity(x, y) ==
    IF Dot(x, x) = 0 \/ Dot(y, y) = 0 THEN <<0, 1>>
    ELSE <<Dot(x, y) * Dot(x, y), Dot(x, x) * Dot(y, y)>>

SimLess(s, t) == s[1] * t[2] < t[1] * s[2]

IsZero(v) == \A t \in 1 .. Len(v) : v[t] = 0

RawVectors == [1 .. Dim -> Weights]

\* centroid rows: any weights, not all zero
CentroidVectors == {v \in RawVectors : ~IsZero(v)}

\* document rows: unit vectors (every article holds a vocabulary term)
UnitVectors == {Normalize(v) : v \in CentroidVectors}

Title(i) == <<"title", i>>

-----------------------------------------------------------------------------
(* Initial state: corpus loaded, vectorized and normalized *)

Init ==
    /\ pc = "normalized"
    /\ articles_titles = [i \in Docs |-> Title(i)]
    /\ normalized_vectors \in [Docs -> UnitVectors]
    /\ clusters = <<>>
    /\ cluster_centers = <<>>
    /\ cluster_index = <<>>
    /\ normalized_query_vector = <<>>
    /\ top_n = 0
    /\ most_relevant_cluster = -1
    /\ docs_in_relevant_cluster = <<>>
    /\ most_similar_docs = <<>>
    /\ most_similar_titles = <<>>
    /\ error = "none"

\* kmeans.fit: the library leaves one label in 0..K-1 per document and K
\* centroid rows of non-negative weights.  Nothing ties a label to the
\* nearest centroid by cosine, and a cluster id may be left without documents.
Fit ==
    /\ pc = "normalized"
    /\ pc' = "fitted"
    /\ clusters' \in [Docs -> ClusterIds]
    /\ cluster_centers' \in [ClusterIds -> CentroidVectors]
    /\ UNCHANGED <<articles_titles, normalized_vectors, cluster_index>>
    /\ UNCHANGED call

-----------------------------------------------------------------------------
(* create_cluster_index *)

EmptyDict == [c \in {} |-> <<>>]

\* a body that replaces the list under the key instead of appending to it
CreateStepOverwrite(index, i, cluster) ==
    LET withKey == IF cluster \notin DOMAIN index
                   THEN index @@ (cluster :> <<>>) ELSE index
    IN  [withKey EXCEPT ![cluster] = <<i>>]

\* a body that inserts at the front of the list
CreateStepPrepend(index, i, cluster) ==
    LET withKey == IF cluster \notin DOMAIN index
                   THEN index @@ (cluster :> <<>>) ELSE index
    IN  [withKey EXCEPT ![cluster] = <<i>> \o @]

\* one turn of the loop: create the key's list when absent, then append i
CreateStep(index, i, cluster) ==
    LET withKey == IF cluster \notin DOMAIN index
                   THEN index @@ (cluster :> <<>>) ELSE index
    IN  [withKey EXCEPT ![cluster] = Append(@, i)]

\* the loop over enumerate(clusters), after its first n turns
RECURSIVE CreateLoop(_, _)
CreateLoop(labels, n) ==
    IF n = 0 THEN EmptyDict
    ELSE CreateStep(CreateLoop(labels, n - 1), n - 1, labels[n - 1])

create_cluster_index(labels) == CreateLoop(labels, Cardinality(DOMAIN labels))

CreateClusterIndex ==
    /\ pc = "fitted"
    /\ pc' = "indexed"
    /\ cluster_index' = create_cluster_index(clusters)
    /\ UNCHANGED fitted
    /\ UNCHANGED call

-----------------------------------------------------------------------------
(* search *)

\* argmax keeps the later position on a tie
ArgmaxStepLast(sims, best, c) == IF SimLess(sims[c], sims[best]) THEN best ELSE c

\* numpy argmax: a later position replaces the best only when strictly larger
ArgmaxStep(sims, best, c) == IF SimLess(sims[best], sims[c]) THEN c ELSE best

RECURSIVE ArgmaxUpTo(_, _)
ArgmaxUpTo(sims, c) ==
    IF c = 0 THEN 0 ELSE ArgmaxStep(sims, ArgmaxUpTo(sims, c - 1), c)

Argmax(sims) == ArgmaxUpTo(sims, NumClusters - 1)

QueryClusterSimilarities(q) ==
    [c \in ClusterIds |-> CosineSimilarity(q, cluster_centers[c])]

\* a defaultdict: a missing key is inserted with an empty list
DefaultDictGetItem(dict, key) ==
    IF key \in DOMAIN dict
    THEN [ok |-> TRUE, val |-> dict[key], dict |-> dict]
    ELSE [ok |-> TRUE, val |-> <<>>, dict |-> dict @@ (key :> <<>>)]

\* dict[key]: the stored list, KeyError when the key is absent; the dict is
\* not written either way
DictGetItem(dict, key) ==
    IF key \in DOMAIN dict
    THEN [ok |-> TRUE, val |-> dict[key], dict |-> dict]
    ELSE [ok |-> FALSE, val |-> <<>>, dict |-> dict]

RECURSIVE DocSimilaritiesUpTo(_, _, _)
DocSimilaritiesUpTo(q, docs, n) ==
    IF n = 0 THEN <<>>
    ELSE Append(DocSimilaritiesUpTo(q, docs, n - 1),
                CosineSimilarity(q, normalized_vectors[docs[n]]))

\* cosine_similarity(query, normalized_vectors[docs]).flatten()
DocSimilarities(q, docs) == DocSimilaritiesUpTo(q, docs, Len(docs))

\* np.argsort, default kind: the positions in ascending order of similarity;
\* the default sort is not stable, so positions of equal similarity come in
\* any order
Argsort(sims) ==
    { order \in [1 .. Len(sims) -> 1 .. Len(sims)] :
        /\ \A a, b \in 1 .. Len(sims) : a # b => order[a] # order[b]
        /\ \A a, b \in 1 .. Len(sims) :
              a < b => ~SimLess(sims[order[b]], sims[order[a]]) }

\* the slice without its reversal
ReverseOmitted(seq) == seq

RECURSIVE ReverseUpTo(_, _)
ReverseUpTo(seq, n) ==
    IF n = 0 THEN <<>> ELSE <<seq[n]>> \o ReverseUpTo(seq, n - 1)

\* seq[::-1]
Reverse(seq) == ReverseUpTo(seq, Len(seq))

\* seq[-n:]  (seq[-0:] is the whole list)
LastN(seq, n) ==
    IF n = 0 \/ n >= Len(seq) THEN seq
    ELSE SubSeq(seq, Len(seq) - n + 1, Len(seq))

RECURSIVE PickDocsUpTo(_, _, _)
PickDocsUpTo(docs, indices, n) ==
    IF n = 0 THEN <<>>
    ELSE Append(PickDocsUpTo(docs, indices, n - 1), docs[indices[n]])

RECURSIVE PickPositionsUpTo(_, _)
PickPositionsUpTo(indices, n) ==
    IF n = 0 THEN <<>>
    ELSE Append(PickPositionsUpTo(indices, n - 1), indices[n] - 1)

\* the position in the cluster's list taken for the document index
PickPositions(docs, indices) == PickPositionsUpTo(indices, Len(indices))

\* docs_in_relevant_cluster[idx] for idx in most_similar_docs_indices
PickDocs(docs, indices) == PickDocsUpTo(docs, indices, Len(indices))

RECURSIVE PickTitlesUpTo(_, _)
PickTitlesUpTo(docs, n) ==
    IF n = 0 THEN <<>>
    ELSE Append(PickTitlesUpTo(docs, n - 1), articles_titles[docs[n]])

\* [articles_titles[d] for d in the picked documents]
PickTitles(docs) == PickTitlesUpTo(docs, Len(docs))

\* One call of search.  Each local is bound once, in the order the body
\* assigns it.
Search(query, n) ==
    /\ pc = "indexed"
    /\ pc' = "searched"
    /\ \E q \in {Normalize(Transform(LowerQuery(query)))} :
       \E mrc \in {Argmax(QueryClusterSimilarities(q))} :
       \E got \in {DictGetItem(cluster_index, mrc)} :
           /\ normalized_query_vector' = q
           /\ top_n' = n
           /\ most_relevant_cluster' = mrc
           /\ cluster_index' = got.dict
           /\ docs_in_relevant_cluster' = got.val
           /\ IF ~got.ok
              THEN /\ error' = "KeyError"
                   /\ most_similar_docs' = <<>>
                   /\ most_similar_titles' = <<>>
              ELSE \E sims \in {DocSimilarities(q, got.val)} :
                   \E order \in Argsort(sims) :
                   \E picked \in {PickDocs(got.val, Reverse(LastN(order, n)))} :
                       /\ error' = "none"
                       /\ most_similar_docs' = picked
                       /\ most_similar_titles' = PickTitles(picked)
    /\ UNCHANGED fitted

\* The call is over (its list handed to the caller, or its exception
\* propagated): the locals are gone and the next call can start.
Return ==
    /\ pc = "searched"
    /\ pc' = "indexed"
    /\ normalized_query_vector' = <<>>
    /\ top_n' = 0
    /\ most_relevant_cluster' = -1
    /\ docs_in_relevant_cluster' = <<>>
    /\ most_similar_docs' = <<>>
    /\ most_similar_titles' = <<>>
    /\ error' = "none"
    /\ UNCHANGED fitted
    /\ UNCHANGED cluster_index

Next ==
    \/ Fit
    \/ CreateClusterIndex
    \/ \E query \in Queries, n \in 1 .. MaxTopN : Search(query, n)
    \/ Return

Spec == Init /\ [][Next]_vars

-----------------------------------------------------------------------------
(* Vocabulary of the properties *)

Range(seq) == {seq[p] : p \in 1 .. Len(seq)}

Members(c) == {d \in Docs : clusters[d] = c}

DocSim(d) == CosineSimilarity(normalized_query_vector, normalized_vectors[d])

CentroidSim(c) == CosineSimilarity(normalized_query_vector, cluster_centers[c])

Min(a, b) == IF a < b THEN a ELSE b

SimEq(s, t) == s[1] * t[2] = t[1] * s[2]

Built == pc \in {"indexed", "searched"}

Called == pc = "searched"

Returned == pc = "searched" /\ error = "none"

-----------------------------------------------------------------------------
(* Properties *)

\* C1: every title search returns is the title of a document whose label is
\* the selected cluster, and the selected cluster is one whose centroid is
\* most similar to the query; documents of other clusters are never returned.
C1_ResultsWithinSelectedCluster ==
    Called =>
        /\ \A c \in ClusterIds :
              ~SimLess(CentroidSim(most_relevant_cluster), CentroidSim(c))
        /\ \A p \in 1 .. Len(most_similar_titles) :
              \E d \in Members(most_relevant_cluster) :
                  most_similar_titles[p] = articles_titles[d]

\* C1 witness: a call returned documents while a document of another cluster
\* is strictly more similar to the query than every returned one.
C1_Witness ==
    /\ Returned
    /\ Len(most_similar_docs) >= 1
    /\ \E d \in Docs :
          /\ clusters[d] # most_relevant_cluster
          /\ \A p \in 1 .. Len(most_similar_docs) :
                SimLess(DocSim(most_similar_docs[p]), DocSim(d))

\* C2: the lists of the cluster index partition the document indices: their
\* union is 0..N-1, no list repeats an index, no two lists share one.
C2_IndexIsPartition ==
    Built =>
        /\ UNION {Range(cluster_index[c]) : c \in DOMAIN cluster_index} = Docs
        /\ \A c \in DOMAIN cluster_index :
              \A a, b \in 1 .. Len(cluster_index[c]) :
                  a # b => cluster_index[c][a] # cluster_index[c][b]
        /\ \A c, e \in DOMAIN cluster_index :
              c # e => Range(cluster_index[c]) \cap Range(cluster_index[e]) = {}

\* C2 witness: an index built over an assignment that uses several clusters.
C2_Witness ==
    /\ pc = "indexed"
    /\ Cardinality(DOMAIN cluster_index) >= 2

\* C4 as claimed: the returned documents are in descending similarity, and
\* returned documents of equal similarity are in ascending document index.
C4_DescendingTiesAscending ==
    Returned =>
        \A a, b \in 1 .. Len(most_similar_docs) :
            a < b =>
                /\ ~SimLess(DocSim(most_similar_docs[a]), DocSim(most_similar_docs[b]))
                /\ SimEq(DocSim(most_similar_docs[a]), DocSim(most_similar_docs[b]))
                      => most_similar_docs[a] < most_similar_docs[b]

\* C4 as amended: the returned documents are in descending (non-increasing)
\* similarity to the query; nothing is said of equal similarities.
C4_Descending ==
    Returned =>
        \A a, b \in 1 .. Len(most_similar_docs) :
            a < b =>
                ~SimLess(DocSim(most_similar_docs[a]), DocSim(most_similar_docs[b]))

\* C4 witness: a call returned two documents of different similarity.
C4_Witness ==
    /\ Returned
    /\ \E a, b \in 1 .. Len(most_similar_docs) :
          SimLess(DocSim(most_similar_docs[b]), DocSim(most_similar_docs[a]))

\* C5: every call with top_n >= 1 returns, without error, exactly
\* min(top_n, size of the selected cluster) distinct documents, and no
\* member left out is more similar than a returned one.
C5_ExactlyMinTopN ==
    Called =>
        /\ error = "none"
        /\ Len(most_similar_titles) = Min(top_n, Cardinality(Members(most_relevant_cluster)))
        /\ Len(most_similar_docs) = Len(most_similar_titles)
        /\ \A a, b \in 1 .. Len(most_similar_docs) :
              a # b => most_similar_docs[a] # most_similar_docs[b]
        /\ \A d \in Members(most_relevant_cluster) \ Range(most_similar_docs) :
              \A p \in 1 .. Len(most_similar_docs) :
                  ~SimLess(DocSim(most_similar_docs[p]), DocSim(d))

\* C6: when the selected cluster has no documents, the lookup gives an empty
\* list and the call returns an empty list without failing.
C6_EmptyClusterGivesEmptyResult ==
    (Called /\ Members(most_relevant_cluster) = {}) =>
        /\ error = "none"
        /\ docs_in_relevant_cluster = <<>>
        /\ most_similar_titles = <<>>

\* C7: a call whose query vector is all-zero fails or returns an empty list.
C7_ZeroQueryFailsOrEmpty ==
    (Called /\ IsZero(normalized_query_vector)) =>
        \/ error # "none"
        \/ most_similar_titles = <<>>

C9_ArgmaxLowestId ==
    Called =>
        /\ \A c \in ClusterIds :
              ~SimLess(CentroidSim(most_relevant_cluster), CentroidSim(c))
        /\ \A c \in ClusterIds :
              c < most_relevant_cluster =>
                  SimLess(CentroidSim(c), CentroidSim(most_relevant_cluster))
        /\ error = "none" =>
              /\ most_relevant_cluster \in DOMAIN cluster_index
              /\ docs_in_relevant_cluster = cluster_index[most_relevant_cluster]
              /\ Range(most_similar_docs) \subseteq Range(cluster_index[most_relevant_cluster])

\* C9 witness: a call returned documents while another centroid tied with the
\* selected one for the maximum similarity.
C9_Witness ==
    /\ Returned
    /\ Len(most_similar_docs) >= 1
    /\ \E c \in ClusterIds :
          /\ c # most_relevant_cluster
          /\ c \in DOMAIN cluster_index
          /\ SimEq(CentroidSim(c), CentroidSim(most_relevant_cluster))

\* C10: every list of the index is strictly ascending, and document i is in
\* the list of cluster c exactly when the assignment labels i with c.
C10_IndexAscendingAndExact ==
    Built =>
        /\ \A c \in DOMAIN cluster_index :
              \A a, b \in 1 .. Len(cluster_index[c]) :
                  a < b => cluster_index[c][a] < cluster_index[c][b]
        /\ \A i \in Docs : \A c \in ClusterIds :
              (c \in DOMAIN cluster_index /\ i \in Range(cluster_index[c]))
                  <=> clusters[i] = c

\* C10 witness: an index built with a list of several documents.
C10_Witness ==
    /\ pc = "indexed"
    /\ \E c \in DOMAIN cluster_index : Len(cluster_index[c]) >= 2

====
